---- MODULE Spec2Model ----
(***************************************************************************)
(* Model of the physics core of src/src/main.rs: Motion (Verlet step),     *)
(* Constraint (circular boundary) and Resolver (gravity, boundary clamp,   *)
(* pairwise collisions, integration), driven once per frame by App::tick.  *)
(*                                                                         *)
(* Numbers.  An f32 is modelled as an integer count of 1/SCALE units, or   *)
(* the value NaN.  +, - are exact on that grid; *, / and length() round to *)
(* the nearest grid value (ties away from zero), each operation rounded    *)
(* once, as IEEE arithmetic rounds each operation.  NaN is absorbing for   *)
(* arithmetic and every ordered comparison with NaN is false.  The only    *)
(* divisors in the program are vector lengths, and a length is zero only   *)
(* for the zero vector, so every division by zero is 0/0 = NaN.            *)
(*                                                                         *)
(* Indices are 0-based as in the source: a population is a function on     *)
(* 0 .. n-1.                                                               *)
(***************************************************************************)
EXTENDS Integers, Sequences, FiniteSets, TLC

VARIABLES
    entities,        \* App.entities: [0..n-1 -> Entity]
    constraint,      \* App.border
    gravity,         \* App.resolver.gravity
    dt,              \* frame time handed to Resolver::update
    pc,              \* where the frame is: "idle", a Resolver pass, or "panic"
    i,               \* loop index of the running pass (outer index of the pair loop)
    k,               \* inner index of the pair loop in apply_collisions
    entity_offset,   \* local of apply_collisions: entities[0].radius * 2.0
    tick,            \* number of updates started (saturates at MaxTicks)
    before,          \* history: the population as it was when the running pass began
    log              \* history: the per-entity / per-pair steps of the running update

vars == <<entities, constraint, gravity, dt, pc, i, k, entity_offset, tick, before, log>>

----------------------------------------------------------------------------
(* Bounds of the model *)

MaxEntities == 3
MaxTicks == 2

----------------------------------------------------------------------------
(* f32 arithmetic *)

SCALE == 256

NaN == -(2^30)

IsNaN(a) == a = NaN

F(n) == n * SCALE

HALF == SCALE \div 2

TWO == 2 * SCALE

\* p / q rounded to the nearest integer, ties away from zero (q # 0)
RoundDiv(p, q) ==
    LET ap == IF p < 0 THEN -p ELSE p
        aq == IF q < 0 THEN -q ELSE q
        m  == (2 * ap + aq) \div (2 * aq)
    IN  IF (p < 0) # (q < 0) THEN -m ELSE m

Add(a, b) == IF IsNaN(a) \/ IsNaN(b) THEN NaN ELSE a + b

Sub(a, b) == IF IsNaN(a) \/ IsNaN(b) THEN NaN ELSE a - b

Mul(a, b) == IF IsNaN(a) \/ IsNaN(b) THEN NaN ELSE RoundDiv(a * b, SCALE)

Div(a, b) ==
    IF IsNaN(a) \/ IsNaN(b) \/ b = 0 THEN NaN ELSE RoundDiv(a * SCALE, b)

Lt(a, b) == ~IsNaN(a) /\ ~IsNaN(b) /\ a < b

Gt(a, b) == ~IsNaN(a) /\ ~IsNaN(b) /\ a > b

RECURSIVE ISqrtIter(_, _, _)
\* floor(sqrt(n)) by bisection, lo*lo <= n < hi*hi
ISqrtIter(n, lo, hi) ==
    IF hi - lo <= 1 THEN lo
    ELSE LET mid == (lo + hi) \div 2
         IN  IF mid * mid <= n THEN ISqrtIter(n, mid, hi)
             ELSE ISqrtIter(n, lo, mid)

\* sqrt(n) rounded to the nearest integer
ISqrt(n) ==
    LET r == ISqrtIter(n, 0, 46341)
    IN  IF n - r * r > r THEN r + 1 ELSE r

----------------------------------------------------------------------------
(* Vec2 *)

Vec(x, y) == [x |-> x, y |-> y]

Zero == Vec(0, 0)

VAdd(a, b) == Vec(Add(a.x, b.x), Add(a.y, b.y))

VSub(a, b) == Vec(Sub(a.x, b.x), Sub(a.y, b.y))

VScale(v, s) == Vec(Mul(v.x, s), Mul(v.y, s))

VDiv(v, s) == Vec(Div(v.x, s), Div(v.y, s))

Length(v) ==
    IF IsNaN(v.x) \/ IsNaN(v.y) THEN NaN ELSE ISqrt(v.x * v.x + v.y * v.y)

VIsNaN(v) == IsNaN(v.x) \/ IsNaN(v.y)

----------------------------------------------------------------------------
(* Motion, Entity, Constraint *)

MotionNew(x, y) ==
    [position |-> Vec(x, y), previous_position |-> Vec(x, y), acceleration |-> Zero]

EntityNew(radius, motion) == [radius |-> radius, motion |-> motion]

ConstraintNew(position, radius, offset) ==
    [position |-> position, radius |-> radius, offset |-> offset]

Accelerate(m, acceleration) ==
    [m EXCEPT !.acceleration = VAdd(m.acceleration, acceleration)]

\* variant: the velocity term scaled by dt once instead of dt * dt
UpdatePositionLinear(m, d) ==
    LET velocity == VSub(m.position, m.previous_position)
    IN  [position |-> VAdd(m.position, VAdd(m.acceleration, VScale(velocity, d))),
         previous_position |-> m.position,
         acceleration |-> Zero]

\* variant: the accumulated acceleration is not reset
UpdatePositionNoReset(m, d) ==
    LET velocity == VSub(m.position, m.previous_position)
    IN  [m EXCEPT !.previous_position = m.position,
                  !.position = VAdd(m.position,
                                    VAdd(m.acceleration, VScale(VScale(velocity, d), d)))]

\* Motion::update_position
UpdatePosition(m, d) ==
    LET velocity == VSub(m.position, m.previous_position)
    IN  [position |-> VAdd(m.position,
                           VAdd(m.acceleration, VScale(VScale(velocity, d), d))),
         previous_position |-> m.position,
         acceleration |-> Zero]

\* variant: the test compares against radius instead of radius - offset
ClampPositionAtRadius(p, c) ==
    LET to_entity == VSub(p, c.position)
        distance  == Length(to_entity)
    IN  IF Gt(distance, c.radius)
        THEN LET n == VDiv(to_entity, distance)
             IN  VAdd(c.position, VScale(n, Sub(distance, c.offset)))
        ELSE p

\* the body of the closure in Resolver::apply_constraint, for one entity
ClampPosition(p, c) ==
    LET to_entity == VSub(p, c.position)
        distance  == Length(to_entity)
    IN  IF Gt(distance, Sub(c.radius, c.offset))
        THEN LET n == VDiv(to_entity, distance)
             IN  VAdd(c.position, VScale(n, Sub(distance, c.offset)))
        ELSE p

\* variant: a quarter of the overlap instead of half
CorrectionQuarter(pa, pb, off) ==
    LET collision_axis == VSub(pa, pb)
        distance == Length(collision_axis)
        n == VDiv(collision_axis, distance)
        delta == Sub(off, distance)
    IN  VScale(n, Mul(HALF \div 2, delta))

\* 0.5 * delta * n of the pair loop's body: the correction added to entity_a
\* and subtracted from entity_b
Correction(pa, pb, off) ==
    LET collision_axis == VSub(pa, pb)
        distance == Length(collision_axis)
        n == VDiv(collision_axis, distance)
        delta == Sub(off, distance)
    IN  VScale(n, Mul(HALF, delta))

\* the overlap test of the pair loop's body
Overlap(pa, pb, off) == Lt(Length(VSub(pa, pb)), off)

\* the body of the pair loop for entities a # b
CollidePair(es, a, b, off) ==
    LET pa == es[a].motion.position
        pb == es[b].motion.position
    IN  IF Overlap(pa, pb, off)
        THEN LET c == Correction(pa, pb, off)
             IN  [es EXCEPT ![a].motion.position = VAdd(pa, c),
                            ![b].motion.position = VSub(pb, c)]
        ELSE es

Count(es) == Cardinality(DOMAIN es)

----------------------------------------------------------------------------
(* Resolver::update: the passes in call order *)

\* variant: collisions resolved before the clamp
SwappedPasses == <<"apply_gravity", "apply_collisions", "apply_constraint", "update_position">>

Passes == <<"apply_gravity", "apply_constraint", "apply_collisions", "update_position">>

PassIndex(p) == CHOOSE j \in 1..Len(Passes) : Passes[j] = p

\* variant: the inner loop starts at the outer index
InnerStartSame(a) == a

\* first inner index of the pair loop for outer index a: `for k in i + 1..`
InnerStart(a) == a + 1

\* entering pass p: loop indices reset; apply_collisions first reads
\* entities[0], which panics on an empty population
Enter(p) ==
    /\ before' = entities
    /\ i' = 0
    /\ IF p = "apply_collisions"
       THEN IF Count(entities) = 0
            THEN /\ pc' = "panic"
                 /\ UNCHANGED <<k, entity_offset>>
            ELSE /\ pc' = p
                 /\ entity_offset' = Mul(entities[0].radius, TWO)
                 /\ k' = InnerStart(0)
       ELSE /\ pc' = p
            /\ UNCHANGED <<k, entity_offset>>

\* the running pass has gone through its whole loop
LoopDone == i = Count(entities)

----------------------------------------------------------------------------
(* Actions *)

\* App::tick -> App::update -> Resolver::update, with frame time d
StartUpdate(d) ==
    /\ pc = "idle"
    /\ dt' = d
    /\ tick' = IF tick < MaxTicks THEN tick + 1 ELSE tick
    /\ log' = <<>>
    /\ Enter(Passes[1])
    /\ UNCHANGED <<entities, constraint, gravity>>

ApplyGravityStep ==
    /\ pc = "apply_gravity"
    /\ i < Count(entities)
    /\ entities' = [entities EXCEPT ![i].motion = Accelerate(@, gravity)]
    /\ i' = i + 1
    /\ log' = Append(log, <<pc, i, i>>)
    /\ UNCHANGED <<constraint, gravity, dt, pc, k, entity_offset, tick, before>>

ApplyConstraintStep ==
    /\ pc = "apply_constraint"
    /\ i < Count(entities)
    /\ entities' = [entities EXCEPT ![i].motion.position = ClampPosition(@, constraint)]
    /\ i' = i + 1
    /\ log' = Append(log, <<pc, i, i>>)
    /\ UNCHANGED <<constraint, gravity, dt, pc, k, entity_offset, tick, before>>

\* one iteration of the inner loop: entity_a = entities[i] is borrowed for the
\* whole outer iteration, entity_b = entities[k] is borrowed here; borrowing the
\* same RefCell twice panics
CollidePairStep ==
    /\ pc = "apply_collisions"
    /\ i < Count(entities)
    /\ k < Count(entities)
    /\ log' = Append(log, <<pc, i, k>>)
    /\ IF k = i
       THEN /\ pc' = "panic"
            /\ UNCHANGED <<entities, k>>
       ELSE /\ entities' = CollidePair(entities, i, k, entity_offset)
            /\ k' = k + 1
            /\ pc' = pc
    /\ UNCHANGED <<constraint, gravity, dt, i, entity_offset, tick, before>>

\* the inner range is exhausted: next outer iteration
CollideNextOuter ==
    /\ pc = "apply_collisions"
    /\ i < Count(entities)
    /\ k >= Count(entities)
    /\ i' = i + 1
    /\ k' = InnerStart(i + 1)
    /\ UNCHANGED <<entities, constraint, gravity, dt, pc, entity_offset, tick, before, log>>

UpdatePositionStep ==
    /\ pc = "update_position"
    /\ i < Count(entities)
    /\ entities' = [entities EXCEPT ![i].motion = UpdatePosition(@, dt)]
    /\ i' = i + 1
    /\ log' = Append(log, <<pc, i, i>>)
    /\ UNCHANGED <<constraint, gravity, dt, pc, k, entity_offset, tick, before>>

\* a pass returns and Resolver::update calls the next one
NextPass ==
    /\ pc \in {Passes[j] : j \in 1..(Len(Passes) - 1)}
    /\ LoopDone
    /\ Enter(Passes[PassIndex(pc) + 1])
    /\ UNCHANGED <<entities, constraint, gravity, dt, tick, log>>

\* the last pass returns: Resolver::update is over
EndUpdate ==
    /\ pc = Passes[Len(Passes)]
    /\ LoopDone
    /\ pc' = "idle"
    /\ UNCHANGED <<entities, constraint, gravity, dt, i, k, entity_offset, tick, before, log>>

----------------------------------------------------------------------------
(* Populations of up to MaxEntities entities in a small world *)

FrameTimes == {SCALE \div 2, SCALE}

Border == ConstraintNew(Vec(F(2), F(2)), F(8), F(2))

\* (5,2), (8,2) and (4,5) overlap in a chain for radius 2; (14,2) lies outside
\* the boundary and is pulled in to (12,2), at distance 4 from (8,2)
Positions == {Vec(F(5), F(2)), Vec(F(8), F(2)), Vec(F(4), F(5)), Vec(F(14), F(2))}

Radii == {F(1), F(2)}

Populations ==
    UNION {[0..(n - 1) -> {EntityNew(r, MotionNew(p.x, p.y)) : r \in Radii, p \in Positions}]
           : n \in 0..MaxEntities}

Init ==
    /\ entities \in Populations
    /\ constraint = Border
    /\ gravity = Vec(0, F(1))
    /\ dt = 0
    /\ pc = "idle"
    /\ i = 0
    /\ k = 0
    /\ entity_offset = 0
    /\ tick = 0
    /\ before = entities
    /\ log = <<>>

Tick == tick < MaxTicks /\ \E d \in FrameTimes : StartUpdate(d)

Next ==
    \/ Tick
    \/ ApplyGravityStep
    \/ ApplyConstraintStep
    \/ CollidePairStep
    \/ CollideNextOuter
    \/ UpdatePositionStep
    \/ NextPass
    \/ EndUpdate

Spec == Init /\ [][Next]_vars

----------------------------------------------------------------------------
(* The two-entity scenario: radius 10 at (0,0) and (15,0), no gravity,
   boundary of radius 1000 and offset 0 around the origin *)

\* frame times 1/16, 1/4 and 3/8; at these the falling entity's motion
\* repeats after a few updates, which keeps its behaviour graph small

ScenarioFrameTimes == {SCALE \div 16, SCALE \div 4, (3 * SCALE) \div 8}

InitPair ==
    /\ entities = [e \in 0..1 |-> EntityNew(F(10), MotionNew(F(15) * e, 0))]
    /\ constraint = ConstraintNew(Zero, F(1000), 0)
    /\ gravity = Zero
    /\ dt = 0
    /\ pc = "idle"
    /\ i = 0
    /\ k = 0
    /\ entity_offset = 0
    /\ tick = 0
    /\ before = entities
    /\ log = <<>>

TickPair == tick < MaxTicks /\ \E d \in ScenarioFrameTimes : StartUpdate(d)

NextPair ==
    \/ TickPair
    \/ ApplyGravityStep
    \/ ApplyConstraintStep
    \/ CollidePairStep
    \/ CollideNextOuter
    \/ UpdatePositionStep
    \/ NextPass
    \/ EndUpdate

SpecPair == InitPair /\ [][NextPair]_vars

----------------------------------------------------------------------------
(* The falling-entity scenario: one entity at the center of a boundary of
   radius 100 and offset 25, gravity (0, 10), updated frame after frame at a
   steady frame time.  App::run loops over App::tick unconditionally, so an enabled step is
   eventually taken. *)

InitFall ==
    /\ entities = [e \in 0..0 |-> EntityNew(F(25), MotionNew(F(100), F(100)))]
    /\ constraint = ConstraintNew(Vec(F(100), F(100)), F(100), F(25))
    /\ gravity = Vec(0, F(10))
    /\ dt \in ScenarioFrameTimes
    /\ pc = "idle"
    /\ i = 0
    /\ k = 0
    /\ entity_offset = 0
    /\ tick = 0
    /\ before = entities
    /\ log = <<>>

TickFall == StartUpdate(dt)

NextFall ==
    \/ TickFall
    \/ ApplyGravityStep
    \/ ApplyConstraintStep
    \/ CollideNextOuter
    \/ UpdatePositionStep
    \/ NextPass
    \/ EndUpdate

SpecFall == InitFall /\ [][NextFall]_vars /\ WF_vars(NextFall)

----------------------------------------------------------------------------
(* Vocabulary of the properties *)

\* rounding tolerance of a computed length: 1/64
Tol == SCALE \div 64

Abs(a) == IF a < 0 THEN -a ELSE a

Near(a, b) == ~IsNaN(a) /\ ~IsNaN(b) /\ Abs(a - b) <= Tol

Dist(p, q) == Length(VSub(p, q))

Pos(es, e) == es[e].motion.position

Ids == DOMAIN entities

Limit == Sub(constraint.radius, constraint.offset)

UpdateDone == pc = "idle" /\ tick > 0

PassDone(p) == pc = p /\ LoopDone

RECURSIVE PairsFrom(_, _, _)
\* the pairs (a, b), a < b < n, ascending a then ascending b, from (a, b) on
PairsFrom(a, b, n) ==
    IF a >= n THEN <<>>
    ELSE IF b >= n THEN PairsFrom(a + 1, a + 2, n)
    ELSE <<<<"apply_collisions", a, b>>>> \o PairsFrom(a, b + 1, n)

Each(p, n) == [j \in 1..n |-> <<p, j - 1, j - 1>>]

ExpectedLog(n) ==
    Each("apply_gravity", n) \o Each("apply_constraint", n)
        \o PairsFrom(0, 1, n) \o Each("update_position", n)

IsPrefix(s, t) == Len(s) <= Len(t) /\ \A j \in 1..Len(s) : s[j] = t[j]

PairLog == SelectSeq(log, LAMBDA r : r[1] = "apply_collisions")

----------------------------------------------------------------------------
(* C1: after the boundary pass every entity is within radius - offset of the
   center, and an entity that was beyond it sits at exactly radius - offset. *)
C1_BoundaryContainment ==
    PassDone("apply_constraint") =>
        \A e \in Ids :
            LET d  == Dist(Pos(entities, e), constraint.position)
                d0 == Dist(Pos(before, e), constraint.position)
            IN  /\ ~IsNaN(d)
                /\ d <= Limit + Tol
                /\ Gt(d0, Limit) => Near(d, Limit)

(* C2: with 0 or 1 entities the collision pass does not panic on an index and
   moves nothing. *)
C2_SmallPopulationNoOp ==
    Count(entities) <= 1 =>
        /\ pc # "panic"
        /\ pc = "apply_collisions" => \A e \in Ids : Pos(entities, e) = Pos(before, e)

(* C3: processing a pair of entities at exactly the same position leaves both
   positions defined (not NaN). *)
C3_CoincidentDefined ==
    [][(/\ pc = "apply_collisions"
        /\ i < Count(entities)
        /\ k < Count(entities)
        /\ i # k
        /\ ~VIsNaN(Pos(entities, i))
        /\ Pos(entities, i) = Pos(entities, k))
       => \A e \in Ids : ~VIsNaN(Pos(entities, e)')]_vars

(* C4: the steps of an update are, in this order, gravity on every entity,
   the clamp on every entity, every pair, integration of every entity; each
   once, and a finished update has done them all. *)
C4_PhasesInOrder ==
    /\ IsPrefix(log, ExpectedLog(Count(entities)))
    /\ UpdateDone => log = ExpectedLog(Count(entities))

C4_Witness ==
    /\ UpdateDone
    /\ Count(entities) = 3
    /\ Len(log) = 12

C8_Integration ==
    /\ pc = "update_position" =>
        \A e \in Ids :
            LET m == before[e].motion
                v == VSub(m.position, m.previous_position)
            IN  IF e < i
                THEN /\ entities[e].motion.previous_position = m.position
                     /\ entities[e].motion.position
                          = VAdd(VAdd(m.position, m.acceleration),
                                 Vec(Mul(Mul(v.x, dt), dt), Mul(Mul(v.y, dt), dt)))
                     /\ entities[e].motion.acceleration = Zero
                ELSE entities[e].motion = m
    /\ UpdateDone =>
        \A e \in Ids :
            /\ entities[e].motion.acceleration = Zero
            /\ entities[e].motion.previous_position = Pos(before, e)

C8_Witness ==
    /\ UpdateDone
    /\ \E e \in Ids :
        /\ ~VIsNaN(Pos(before, e))
        /\ before[e].motion.previous_position # Pos(before, e)
        /\ before[e].motion.acceleration # Zero
        /\ Pos(entities, e) # VAdd(Pos(before, e), before[e].motion.acceleration)

(* C9: when every pair is at least r_i + r_j apart at the start of the
   collision pass, the pass moves nothing. *)
C9_NoOverlapNoMove ==
    (/\ PassDone("apply_collisions")
     /\ \A a, b \in Ids :
            a < b => LET d == Dist(Pos(before, a), Pos(before, b))
                     IN  ~IsNaN(d) /\ d >= before[a].radius + before[b].radius)
    => \A e \in Ids : Pos(entities, e) = Pos(before, e)

(* C10: with n >= 1 entities the pairs examined are (i, k), i < k < n, in
   ascending i then ascending k, each once; the two entities of a step are
   distinct, so no borrow panics; and a pair moves exactly when the positions
   current at its step (not those at the start of the pass) overlap. *)
C10_PairOrder ==
    /\ [](Count(entities) >= 1 =>
            /\ pc # "panic"
            /\ \A j \in 1..Len(PairLog) : PairLog[j][2] < PairLog[j][3]
            /\ IsPrefix(PairLog, PairsFrom(0, 1, Count(entities)))
            /\ (PassDone("apply_collisions") \/ pc = "update_position" \/ UpdateDone)
                 => PairLog = PairsFrom(0, 1, Count(entities)))
    /\ [][(pc = "apply_collisions" /\ i < Count(entities) /\ k < Count(entities))
          => ((entities' # entities)
                <=> Overlap(Pos(entities, i), Pos(entities, k), entity_offset))]_vars

C10_Witness ==
    /\ pc = "apply_collisions"
    /\ Count(entities) = 3
    /\ i < 3 /\ k < 3 /\ i # k
    /\ ~VIsNaN(Pos(entities, i)) /\ ~VIsNaN(Pos(entities, k))
    /\ Overlap(Pos(entities, i), Pos(entities, k), entity_offset)
    /\ ~Overlap(Pos(before, i), Pos(before, k), entity_offset)

CenterDist(e) == Dist(Pos(entities, e), constraint.position)

(* C6, as stated: from some update on, the falling entity ends every update
   at distance at most 75 from the center. *)
C6_Original == <>[](UpdateDone => CenterDist(0) <= F(75))

(* C6, amended: right after the boundary pass of every update the distance is
   at most 75; at the end of an update, after integration has added gravity
   and velocity to the clamped position, it is at most 90 (and may be above
   75). *)
C6_Containment ==
    /\ PassDone("apply_constraint") => CenterDist(0) <= F(75)
    /\ UpdateDone => CenterDist(0) <= F(90)

C6_Witness ==
    /\ PassDone("apply_constraint")
    /\ Pos(entities, 0) # Pos(before, 0)
    /\ Dist(Pos(before, 0), constraint.position) > F(75)

\* 2.5: half of the overlap of the two entities of the pair scenario
Push == F(5) \div 2

(* C7, as stated: the collision pass of the first update moves the two
   entities to x = -2.5 and x = 17.5, and integration leaves them there. *)
C7_Original ==
    /\ (tick = 1 /\ (PassDone("apply_collisions") \/ UpdateDone)) =>
        /\ Pos(entities, 0) = Vec(-Push, 0)
        /\ Pos(entities, 1) = Vec(F(15) + Push, 0)

(* C7, amended: the collision pass of the first update moves the two entities
   to x = -2.5 and x = 17.5 (distance 20); integration then sees velocity
   -2.5 and +2.5 (previous_position is still the starting position) and moves
   each a further 2.5*dt*dt the same way. *)
C7_PushThenDrift ==
    /\ (tick = 1 /\ PassDone("apply_collisions")) =>
        /\ Pos(entities, 0) = Vec(-Push, 0)
        /\ Pos(entities, 1) = Vec(F(15) + Push, 0)
        /\ Dist(Pos(entities, 0), Pos(entities, 1)) = F(20)
    /\ (tick = 1 /\ UpdateDone) =>
        /\ Pos(entities, 0) = Vec(-Push - Mul(Mul(Push, dt), dt), 0)
        /\ Pos(entities, 1) = Vec(F(15) + Push + Mul(Mul(Push, dt), dt), 0)

C7_Witness ==
    /\ tick = 1
    /\ UpdateDone
    /\ Pos(entities, 0).x < -Push
    /\ Pos(entities, 1).x > F(15) + Push

====
